---- MODULE Spec2Model ----
(***************************************************************************)
(* Model of metrics_scraper.py (class MetricsScraper): the watch filter,   *)
(* the name normalisation, the five collectors, the stateless evaluation   *)
(* with its PagerDuty dispatch, and run().                                 *)
(*                                                                         *)
(* Resource names and namespaces are sequences of one-character strings,   *)
(* so that the regular expression of remove_replicaset_hash and the string *)
(* concatenation of the dedup key are computed, not assumed.  Kinds, pod   *)
(* phases and metric types are strings.  Python's None is the integer -1   *)
(* where the other values are integers, and the string "None" where they   *)
(* are strings.                                                            *)
(***************************************************************************)
EXTENDS Integers, Sequences, FiniteSets, TLC

VARIABLES
    watch_json,    \* self.watch_json: the list of watch entries
    cluster,       \* what the Kubernetes API returns: the objects of the cluster
    pc,            \* position of the process
    all_metrics,   \* run(): all_metrics, the metric dicts (mutated in place)
    evaluated,     \* the metrics as they were passed to evaluate_and_notify
    events,        \* the requests.post calls made, in order, with their outcome
    tally,         \* evaluate_and_notify: [triggers, resolves] as logged at its end
    faults,        \* the API calls that failed during the run
    invoked,       \* the collectors run() has called so far
    fn_arg,        \* argument of a helper called on its own
    fn_ret         \* results of a helper called on its own

vars == <<watch_json, cluster, pc, all_metrics, evaluated, events, tally,
          faults, invoked, fn_arg, fn_ret>>

\* ------------------------------------------------------------------ bounds
MaxNameLen == 5     \* longest name given to remove_replicaset_hash on its own
MaxApply == 2       \* times remove_replicaset_hash is applied in a row
MaxWatch == 2       \* longest watch list
MaxObjs == 2        \* most objects the cluster holds
MaxMetrics == 2     \* longest list given to evaluate_and_notify on its own
MaxFaults == 1      \* most Kubernetes API calls that fail in one run

\* ------------------------------------------------------------- Python values
None == -1

NoneStr == "None"

\* x or 0
Or0(x) == IF x = None THEN 0 ELSE x

Min(S) == CHOOSE x \in S : \A y \in S : x <= y

RECURSIVE SeqsUpTo(_, _)
SeqsUpTo(S, n) ==
    IF n = 0 THEN {<<>>}
    ELSE LET shorter == SeqsUpTo(S, n - 1)
         IN  shorter \cup {Append(s, x) : s \in {t \in shorter : Len(t) = n - 1}, x \in S}

\* ----------------------------------------------------------------- strings
\* The characters of the names enumerated for remove_replicaset_hash: one of
\* each class its pattern distinguishes (lower case, upper case, digit, the
\* hyphen, "." which is neither and is legal in names, and the newline, before
\* which "$" also matches when it ends the string).
NameChars == {"a", "Z", "7", "-", ".", "\n"}

\* the character class [a-zA-Z0-9]
AlnumChars ==
    {"a", "b", "c", "d", "e", "f", "g", "h", "i", "j", "k", "l", "m",
     "n", "o", "p", "q", "r", "s", "t", "u", "v", "w", "x", "y", "z",
     "A", "B", "C", "D", "E", "F", "G", "H", "I", "J", "K", "L", "M",
     "N", "O", "P", "Q", "R", "S", "T", "U", "V", "W", "X", "Y", "Z",
     "0", "1", "2", "3", "4", "5", "6", "7", "8", "9"}

\* The letters str.lower() changes, and what it changes them to (ASCII)
UpperLetters == "ABCDEFGHIJKLMNOPQRSTUVWXYZ"

LowerLetters == "abcdefghijklmnopqrstuvwxyz"

\* str.lower() of each upper-case letter
LowerCharMap ==
    [c \in {SubSeq(UpperLetters, i, i) : i \in 1..Len(UpperLetters)} |->
        LET i == CHOOSE k \in 1..Len(UpperLetters) : SubSeq(UpperLetters, k, k) = c
        IN  SubSeq(LowerLetters, i, i)]

\* str.lower() of a one-character string
LowerChar(c) == IF c \in DOMAIN LowerCharMap THEN LowerCharMap[c] ELSE c

\* str.lower(): every upper-case letter replaced, the rest kept
RECURSIVE Lower(_)
Lower(s) ==
    IF Len(s) = 0 THEN ""
    ELSE LowerChar(SubSeq(s, 1, 1)) \o Lower(SubSeq(s, 2, Len(s)))

\* The positions where "$" matches: the end of the string, and just before a
\* newline that is the last character of the string.
MatchEnds(s) ==
    {Len(s)} \cup (IF Len(s) > 0 /\ s[Len(s)] = "\n" THEN {Len(s) - 1} ELSE {})

\* re.search(r'-[a-zA-Z0-9]+$', s): the positions where a match can start, a
\* hyphen followed by one or more alphanumerics up to a position where "$"
\* matches.
HashMatches(s) ==
    {i \in 1..Len(s) :
        /\ s[i] = "-"
        /\ \E e \in MatchEnds(s) :
              /\ i < e
              /\ \A j \in (i + 1)..e : s[j] \in AlnumChars}

\* remove_replicaset_hash: re.sub of the same pattern by '' when it matches;
\* what follows the match, a final newline, stays
remove_replicaset_hash(metric_name) ==
    IF HashMatches(metric_name) # {}
    THEN SubSeq(metric_name, 1, Min(HashMatches(metric_name)) - 1)
         \o (IF metric_name[Len(metric_name)] = "\n" THEN <<"\n">> ELSE <<>>)
    ELSE metric_name

\* -------------------------------------------------------------- watch filter
\* (item.get("kind") or "Deployment").lower(); an absent kind is "None"
EntryKind(item) ==
    Lower(IF item.kind \in {NoneStr, ""} THEN "Deployment" ELSE item.kind)

\* __init__: the loop filling self.watch_pairs_by_kind, entry after entry
RECURSIVE BuildPairs(_, _, _)
BuildPairs(w, i, acc) ==
    IF i > Len(w) THEN acc
    ELSE LET kind == EntryKind(w[i])
             pair == <<w[i].namespace, w[i].name>>
             old == IF kind \in DOMAIN acc THEN acc[kind] ELSE {}
         IN  BuildPairs(w, i + 1,
                 [k \in DOMAIN acc \cup {kind} |->
                     IF k = kind THEN old \cup {pair} ELSE acc[k]])

watch_pairs_by_kind(w) == BuildPairs(w, 1, <<>>)

\* self.watched_namespaces
watched_namespaces(w) == {w[i].namespace : i \in 1..Len(w)}

\* A plausible bug: the kind asked for is not lower-cased.
IsWatchedNoLower(w, kind, namespace, name) ==
    LET by == watch_pairs_by_kind(w)
        pairs == IF kind \in DOMAIN by THEN by[kind] ELSE {}
    IN  IF pairs # {} THEN <<namespace, name>> \in pairs
        ELSE namespace \in watched_namespaces(w)

\* _is_watched
is_watched(w, kind, namespace, name) ==
    LET by == watch_pairs_by_kind(w)
        pairs == IF Lower(kind) \in DOMAIN by THEN by[Lower(kind)] ELSE {}
    IN  IF pairs # {} THEN <<namespace, name>> \in pairs
        ELSE namespace \in watched_namespaces(w)

\* ------------------------------------------------------------------ cluster
\* cluster.workloads: the Deployments, ReplicaSets, DaemonSets, StatefulSets
\* and CronJobs, each a record
\*   [kind, name, namespace,
\*    replicas      spec.replicas, or status.desired_number_scheduled (DaemonSet)
\*    has_status    FALSE when .status is None
\*    available     status.available_replicas
\*    ready         status.ready_replicas, or status.number_ready (DaemonSet)
\*    suspend       spec.suspend of a CronJob: "None", "True" or "False"
\*    last_success  whether status.last_successful_time is set (CronJob)]
\* cluster.jobs: [name, namespace, owners (sequence of [kind, name]), failed]
\* cluster.pods: [namespace, job_name (<<>> without the label), has_status, phase]

\* list_<kind>_for_all_namespaces().items
ListAll(kind) == SelectSeq(cluster.workloads, LAMBDA o : o.kind = kind)

\* list_namespaced_job(namespace).items
ListJobs(namespace) == SelectSeq(cluster.jobs, LAMBDA j : j.namespace = namespace)

\* list_namespaced_pod(namespace).items
ListPods(namespace) == SelectSeq(cluster.pods, LAMBDA p : p.namespace = namespace)

\* The index of the first item whose processing raises, Len + 1 when none does.
FirstRaise(items, Raises(_)) ==
    Min({i \in 1..Len(items) : Raises(items[i])} \cup {Len(items) + 1})

MapSeq(s, F(_)) == [i \in 1..Len(s) |-> F(s[i])]

\* The dict every collector appends.  The keys only some kinds have
\* (failed_jobs, failed_pods) are None for the others.
Metric(name, namespace, type, desired, available, ready, failed_jobs, failed_pods) ==
    [name |-> name, namespace |-> namespace, type |-> type,
     desired_replicas |-> desired, available_replicas |-> available,
     ready_replicas |-> ready, failed_jobs |-> failed_jobs,
     failed_pods |-> failed_pods]

\* The items a collector's loop gets through: all of them, or those before the
\* first one that raises (the except clause is outside the loop).
Processed(items, Raises(_)) == SubSeq(items, 1, FirstRaise(items, Raises) - 1)

\* A plausible bug: the exception of the list query is not caught.
CollectorDoesNotCatch == FALSE

\* except Exception as e: logger.error(...) around each collector's body
CollectorCatches == TRUE

\* ---------- Deployments ----------
get_deployment_metrics(w, items, query_fails) ==
    IF query_fails THEN <<>>
    ELSE LET Watched(d) == is_watched(w, "deployment", d.namespace, d.name)
             \* deployment.status.available_replicas with status None
             Raises(d) == Watched(d) /\ ~d.has_status
             M(d) == Metric(d.name, d.namespace, "deployment", Or0(d.replicas),
                            Or0(d.available), Or0(d.ready), None, None)
         IN  MapSeq(SelectSeq(Processed(items, Raises), Watched), M)

\* ---------- ReplicaSets ----------
\* A plausible bug: the filter is _is_watched alone.
RsKeptWatchedOnly(w, rs) ==
    /\ is_watched(w, "replicaset", rs.namespace, rs.name)
    /\ Or0(rs.replicas) # 0

\* The two `continue` of the ReplicaSet loop: whether rs gets a metric
RsKept(w, rs) ==
    /\ ~(~is_watched(w, "replicaset", rs.namespace, rs.name)
         /\ rs.namespace \notin watched_namespaces(w))
    /\ Or0(rs.replicas) # 0

\* Whether rs passes the watch filter (and so has its status read)
RsWatched(w, rs) ==
    ~(~is_watched(w, "replicaset", rs.namespace, rs.name)
      /\ rs.namespace \notin watched_namespaces(w))

get_replicaset_metrics(w, items, query_fails) ==
    IF query_fails THEN <<>>
    ELSE LET Raises(rs) == RsWatched(w, rs) /\ ~rs.has_status
             Kept(rs) == RsKept(w, rs)
             M(rs) == Metric(rs.name, rs.namespace, "replicaset", Or0(rs.replicas),
                             Or0(rs.available), Or0(rs.ready), None, None)
         IN  MapSeq(SelectSeq(Processed(items, Raises), Kept), M)

\* ---------- DaemonSets ----------
\* status = ds.status or client.V1DaemonSetStatus(): the client's constructor
\* called without its required fields raises ValueError, so a watched DaemonSet
\* without status ends the loop like a missing status does for the other kinds
get_daemonset_metrics(w, items, query_fails) ==
    IF query_fails THEN <<>>
    ELSE LET Watched(ds) == is_watched(w, "daemonset", ds.namespace, ds.name)
             Raises(ds) == Watched(ds) /\ ~ds.has_status
             M(ds) == Metric(ds.name, ds.namespace, "daemonset", Or0(ds.replicas),
                             Or0(ds.ready), Or0(ds.ready), None, None)
         IN  MapSeq(SelectSeq(Processed(items, Raises), Watched), M)

\* ---------- StatefulSets ----------
get_statefulset_metrics(w, items, query_fails) ==
    IF query_fails THEN <<>>
    ELSE LET Watched(ss) == is_watched(w, "statefulset", ss.namespace, ss.name)
             Raises(ss) == Watched(ss) /\ ~ss.has_status
             M(ss) == Metric(ss.name, ss.namespace, "statefulset", Or0(ss.replicas),
                             Or0(ss.ready), Or0(ss.ready), None, None)
         IN  MapSeq(SelectSeq(Processed(items, Raises), Watched), M)

\* ---------- CronJobs ----------
\* The loop over job.metadata.owner_references of one Job
RECURSIVE ScanRefs(_, _, _, _)
ScanRefs(job, name, r, acc) ==
    IF r > Len(job.owners) THEN acc
    ELSE IF job.owners[r].kind = "CronJob" /\ job.owners[r].name = name
         THEN ScanRefs(job, name, r + 1,
                  [job_names |-> Append(acc.job_names, job.name),
                   failed_jobs |-> acc.failed_jobs
                                   + (IF Or0(job.failed) > 0 THEN 1 ELSE 0)])
         ELSE ScanRefs(job, name, r + 1, acc)

\* The loop over jobs.items
RECURSIVE ScanJobs(_, _, _, _)
ScanJobs(jobs, name, i, acc) ==
    IF i > Len(jobs) THEN acc
    ELSE ScanJobs(jobs, name, i + 1, ScanRefs(jobs[i], name, 1, acc))

\* A plausible bug: a failed listing of the Jobs counts as a failed Job.
OwnedJobsStrict(namespace, name, jobs_fail) ==
    IF jobs_fail THEN [job_names |-> <<>>, failed_jobs |-> 1]
    ELSE ScanJobs(ListJobs(namespace), name, 1, [job_names |-> <<>>, failed_jobs |-> 0])

\* "Check Jobs owned by this CronJob": job_names and failed_jobs after the try
OwnedJobs(namespace, name, jobs_fail) ==
    IF jobs_fail THEN [job_names |-> <<>>, failed_jobs |-> 0]
    ELSE ScanJobs(ListJobs(namespace), name, 1, [job_names |-> <<>>, failed_jobs |-> 0])

\* "Check Pods of those Jobs": failed_pods after the try.  pod.status.phase
\* raises when a pod of one of the Jobs has no status; the count so far stays.
FailedPods(namespace, job_names, pods_fail) ==
    IF job_names = <<>> \/ pods_fail THEN 0
    ELSE LET job_name_set == {job_names[i] : i \in 1..Len(job_names)}
             Raises(p) == p.job_name \in job_name_set /\ ~p.has_status
             seen == Processed(ListPods(namespace), Raises)
         IN  Cardinality({i \in 1..Len(seen) :
                 /\ seen[i].job_name \in job_name_set
                 /\ Lower(IF seen[i].phase = NoneStr THEN "" ELSE seen[i].phase)
                        \in {"failed", "unknown"}})

\* bool(spec.suspend) if spec.suspend is not None else False
Suspended(cj) == cj.suspend = "True"

\* last_success_iso is not None: status (or the empty V1CronJobStatus) has a
\* last_successful_time
HasLastSuccess(cj) == cj.has_status /\ cj.last_success

\* A plausible bug: a schedule that never succeeded counts as healthy.
CronMetricNoLastSuccess(cj, jobs_fail, pods_fail) ==
    LET owned == OwnedJobs(cj.namespace, cj.name, jobs_fail)
        failed_pods == FailedPods(cj.namespace, owned.job_names, pods_fail)
        healthy == ~Suspended(cj) /\ owned.failed_jobs = 0 /\ failed_pods = 0
        available == IF healthy THEN 1 ELSE 0
    IN  Metric(cj.name, cj.namespace, "cronjob", IF Suspended(cj) THEN 0 ELSE 1,
               available, available, owned.failed_jobs, failed_pods)

\* The body of the CronJob loop for one watched CronJob
CronMetric(cj, jobs_fail, pods_fail) ==
    LET owned == OwnedJobs(cj.namespace, cj.name, jobs_fail)
        failed_pods == FailedPods(cj.namespace, owned.job_names, pods_fail)
        healthy == /\ ~Suspended(cj)
                   /\ HasLastSuccess(cj)
                   /\ owned.failed_jobs = 0
                   /\ failed_pods = 0
        available == IF healthy THEN 1 ELSE 0
    IN  Metric(cj.name, cj.namespace, "cronjob", IF Suspended(cj) THEN 0 ELSE 1,
               available, available, owned.failed_jobs, failed_pods)

\* The CronJob a listing of Jobs or Pods is made for, as the warning of a
\* failed listing names it: "<namespace>/<name>"
CallOf(cj) == cj.namespace \o <<"/">> \o cj.name

\* jobs_fail, pods_fail: the CronJobs (as CallOf names them) whose listing of
\* Jobs, of Pods, fails (when it is made)
get_cronjob_metrics(w, items, query_fails, jobs_fail, pods_fail) ==
    IF query_fails THEN <<>>
    ELSE LET Watched(cj) == is_watched(w, "cronjob", cj.namespace, cj.name)
             M(cj) == CronMetric(cj, CallOf(cj) \in jobs_fail, CallOf(cj) \in pods_fail)
         IN  MapSeq(SelectSeq(items, Watched), M)

\* ---------- PagerDuty ----------
\* "k8s-zero-replicas-"
DedupPrefix ==
    <<"k", "8", "s", "-", "z", "e", "r", "o", "-",
      "r", "e", "p", "l", "i", "c", "a", "s", "-">>

\* A plausible bug: the resolve is keyed by the bare resource key.
SendResolveBareKey(resource_key, post_ok) ==
    [call |-> [event_action |-> "resolve", dedup_key |-> resource_key], sent |-> post_ok]

\* send_pagerduty_alert: the request it posts and what it returns; post_ok is
\* whether requests.post and raise_for_status go through
send_pagerduty_alert(resource_key, post_ok) ==
    [call |-> [event_action |-> "trigger", dedup_key |-> DedupPrefix \o resource_key],
     sent |-> post_ok]

\* send_pagerduty_resolve
send_pagerduty_resolve(resource_key, post_ok) ==
    [call |-> [event_action |-> "resolve", dedup_key |-> DedupPrefix \o resource_key],
     sent |-> post_ok]

\* ---------- Stateless evaluation ----------
\* A plausible bug: the "or 0" is left out, and an absent count is not 0.
IgnoredOnlyZero(metric) == metric.desired_replicas = 0

\* desired == 0 after metric.get('desired_replicas', 0) or 0
Ignored(metric) == Or0(metric.desired_replicas) = 0

\* unhealthy = (available == 0)
Unhealthy(metric) == Or0(metric.available_replicas) = 0

\* if self.send_...(...): triggers += 1 / resolves += 1
Counted(sent) == IF sent THEN 1 ELSE 0

\* A plausible bug: the loop stops at the first send that fails.
RECURSIVE EvalStopOnFailure(_, _, _, _)
EvalStopOnFailure(metrics, post_ok, i, acc) ==
    IF i > Len(metrics) THEN acc
    ELSE IF Ignored(metrics[i]) THEN EvalStopOnFailure(metrics, post_ok, i + 1, acc)
    ELSE LET name == remove_replicaset_hash(metrics[i].name)
             resource_key == metrics[i].namespace \o <<"/">> \o name
             r == IF Unhealthy(metrics[i])
                  THEN send_pagerduty_alert(resource_key, post_ok[i])
                  ELSE send_pagerduty_resolve(resource_key, post_ok[i])
             next == [metrics |-> [acc.metrics EXCEPT ![i].name = name],
                      events |-> Append(acc.events,
                                  [event_action |-> r.call.event_action,
                                   dedup_key |-> r.call.dedup_key,
                                   sent |-> r.sent, i |-> i]),
                      triggers |-> acc.triggers
                          + (IF Unhealthy(metrics[i]) THEN Counted(r.sent) ELSE 0),
                      resolves |-> acc.resolves
                          + (IF Unhealthy(metrics[i]) THEN 0 ELSE Counted(r.sent))]
         IN  IF r.sent THEN EvalStopOnFailure(metrics, post_ok, i + 1, next) ELSE next

\* The loop of evaluate_and_notify from metric i on; acc is the state so far:
\* the metric dicts (their names rewritten in place), the posts made, the tallies
RECURSIVE EvalLoop(_, _, _, _)
EvalLoop(metrics, post_ok, i, acc) ==
    IF i > Len(metrics) THEN acc
    ELSE IF Ignored(metrics[i]) THEN EvalLoop(metrics, post_ok, i + 1, acc)
    ELSE LET name == remove_replicaset_hash(metrics[i].name)
             resource_key == metrics[i].namespace \o <<"/">> \o name
             r == IF Unhealthy(metrics[i])
                  THEN send_pagerduty_alert(resource_key, post_ok[i])
                  ELSE send_pagerduty_resolve(resource_key, post_ok[i])
         IN  EvalLoop(metrics, post_ok, i + 1,
                 [metrics |-> [acc.metrics EXCEPT ![i].name = name],
                  events |-> Append(acc.events,
                                  [event_action |-> r.call.event_action,
                                   dedup_key |-> r.call.dedup_key,
                                   sent |-> r.sent, i |-> i]),
                  triggers |-> acc.triggers
                      + (IF Unhealthy(metrics[i]) THEN Counted(r.sent) ELSE 0),
                  resolves |-> acc.resolves
                      + (IF Unhealthy(metrics[i]) THEN 0 ELSE Counted(r.sent))])

\* evaluate_and_notify(metrics); post_ok[i] is whether the post made for
\* metric i, if one is made, succeeds
evaluate_and_notify(metrics, post_ok) ==
    EvalLoop(metrics, post_ok, 1,
             [metrics |-> metrics, events |-> <<>>, triggers |-> 0, resolves |-> 0])

\* ---------- Main ----------
NoFn == <<>>

\* logger.error / logger.warning of a failed call: the call and the CronJob it
\* was made for (<<>> for the cluster-wide lists)
Fault(call, who) == [call |-> call, who |-> who]

\* Whether one more API call may fail
QueryOutcomes == IF Cardinality(faults) < MaxFaults THEN BOOLEAN ELSE {FALSE}

\* all_metrics.extend(...)
Extend(metrics, new) == metrics \o new

\* run(): one all_metrics.extend(self.get_<kind>_metrics()).  An exception the
\* collector did not catch would leave run() and end the process (exit(1)).
Collected(kind, next, query_fails, metrics, new_faults) ==
    /\ invoked' = invoked \cup {kind}
    /\ faults' = faults \cup new_faults
    /\ pc' = IF query_fails /\ ~CollectorCatches THEN "fatal" ELSE next
    /\ all_metrics' = IF query_fails /\ ~CollectorCatches THEN all_metrics
                      ELSE Extend(all_metrics, metrics)
    /\ UNCHANGED <<watch_json, cluster, evaluated, events, tally, fn_arg, fn_ret>>

ListFault(call, query_fails) == IF query_fails THEN {Fault(call, <<>>)} ELSE {}

GetDeploymentMetrics ==
    /\ pc = "deployment"
    /\ \E query_fails \in QueryOutcomes :
          Collected("deployment", "replicaset", query_fails,
                    get_deployment_metrics(watch_json, ListAll("deployment"), query_fails),
                    ListFault("list_deployment", query_fails))

GetReplicasetMetrics ==
    /\ pc = "replicaset"
    /\ \E query_fails \in QueryOutcomes :
          Collected("replicaset", "daemonset", query_fails,
                    get_replicaset_metrics(watch_json, ListAll("replicaset"), query_fails),
                    ListFault("list_replica_set", query_fails))

GetDaemonsetMetrics ==
    /\ pc = "daemonset"
    /\ \E query_fails \in QueryOutcomes :
          Collected("daemonset", "statefulset", query_fails,
                    get_daemonset_metrics(watch_json, ListAll("daemonset"), query_fails),
                    ListFault("list_daemon_set", query_fails))

GetStatefulsetMetrics ==
    /\ pc = "statefulset"
    /\ \E query_fails \in QueryOutcomes :
          Collected("statefulset", "cronjob", query_fails,
                    get_statefulset_metrics(watch_json, ListAll("statefulset"), query_fails),
                    ListFault("list_stateful_set", query_fails))

\* The CronJobs the collector lists the Jobs of: the watched ones
JobCalls(query_fails) ==
    IF query_fails THEN {}
    ELSE LET items == ListAll("cronjob")
         IN  {CallOf(items[i]) : i \in {j \in 1..Len(items) :
                 is_watched(watch_json, "cronjob", items[j].namespace, items[j].name)}}

\* The CronJobs the collector lists the Pods of: those with job_names
PodCalls(query_fails, jobs_fail) ==
    IF query_fails THEN {}
    ELSE LET items == ListAll("cronjob")
         IN  {CallOf(items[i]) : i \in {j \in 1..Len(items) :
                 /\ is_watched(watch_json, "cronjob", items[j].namespace, items[j].name)
                 /\ OwnedJobs(items[j].namespace, items[j].name,
                              CallOf(items[j]) \in jobs_fail).job_names # <<>>}}

GetCronjobMetrics ==
    /\ pc = "cronjob"
    /\ \E query_fails \in BOOLEAN :
          \E jobs_fail \in SUBSET JobCalls(query_fails) :
             \E pods_fail \in SUBSET PodCalls(query_fails, jobs_fail) :
                LET new == ListFault("list_cron_job", query_fails)
                           \cup {Fault("list_namespaced_job", n) : n \in jobs_fail}
                           \cup {Fault("list_namespaced_pod", n) : n \in pods_fail}
                IN  /\ Cardinality(faults \cup new) <= MaxFaults
                    /\ Collected("cronjob", "evaluate", query_fails,
                                 get_cronjob_metrics(watch_json, ListAll("cronjob"),
                                                     query_fails, jobs_fail, pods_fail),
                                 new)

EvaluateAndNotify ==
    /\ pc = "evaluate"
    /\ \E post_ok \in [1..Len(all_metrics) -> BOOLEAN] :
          LET r == evaluate_and_notify(all_metrics, post_ok)
          IN  /\ evaluated' = all_metrics
              /\ all_metrics' = r.metrics
              /\ events' = r.events
              /\ tally' = [triggers |-> r.triggers, resolves |-> r.resolves]
    /\ pc' = "done"
    /\ UNCHANGED <<watch_json, cluster, faults, invoked, fn_arg, fn_ret>>

\* remove_replicaset_hash called on its own, on a name and then on its result
Normalize ==
    /\ pc = "normalize"
    /\ Len(fn_ret) < MaxApply
    /\ fn_ret' = Append(fn_ret, remove_replicaset_hash(
                     IF fn_ret = <<>> THEN fn_arg ELSE fn_ret[Len(fn_ret)]))
    /\ UNCHANGED <<watch_json, cluster, pc, all_metrics, evaluated, events, tally,
                   faults, invoked, fn_arg>>

\* _is_watched called on its own
IsWatched ==
    /\ pc = "is_watched"
    /\ fn_ret' = <<is_watched(watch_json, fn_arg.kind, fn_arg.namespace, fn_arg.name)>>
    /\ pc' = "returned"
    /\ UNCHANGED <<watch_json, cluster, all_metrics, evaluated, events, tally,
                   faults, invoked, fn_arg>>

\* ------------------------------------------------------------------- inputs
ns1 == <<"n", "s", "1">>

ns2 == <<"n", "s", "2">>

web == <<"w", "e", "b">>

webHash == <<"w", "e", "b", "-", "7", "f", "9">>

webV2Hash == <<"w", "e", "b", "-", "v", "2", "-", "7", "f", "9">>

apiHash == <<"a", "p", "i", "-", "5", "c">>

api == <<"a", "p", "i">>

agent == <<"a", "g", "e", "n", "t">>

db == <<"d", "b">>

job == <<"j", "o", "b">>

bak == <<"b", "a", "k">>

Kinds == {"deployment", "replicaset", "daemonset", "statefulset", "cronjob"}

WatchEntry(kind, namespace, name) == [kind |-> kind, namespace |-> namespace, name |-> name]

Workload(kind, name, namespace, replicas, has_status, available, ready, suspend, last_success) ==
    [kind |-> kind, name |-> name, namespace |-> namespace, replicas |-> replicas,
     has_status |-> has_status, available |-> available, ready |-> ready,
     suspend |-> suspend, last_success |-> last_success]

Replicated(kind, name, namespace, replicas, has_status, available) ==
    Workload(kind, name, namespace, replicas, has_status, available, available,
             NoneStr, FALSE)

CronJob(name, namespace, suspend, has_status, last_success) ==
    Workload("cronjob", name, namespace, None, has_status, None, None,
             suspend, last_success)

NoCluster == [workloads |-> <<>>, jobs |-> <<>>, pods |-> <<>>]

NoTally == [triggers |-> 0, resolves |-> 0]

\* The name the cluster gives the Job at position i: "j1", "j2", ...
JobName(i) == <<"j", CHOOSE c \in {"1", "2", "3", "4"} :
                       c = <<"1", "2", "3", "4">>[IF i < 4 THEN i ELSE 4]>>

\* --- a whole run: a few objects of any kind, in namespace ns1
RunNames ==
    [deployment |-> web, replicaset |-> webHash, daemonset |-> agent,
     statefulset |-> db, cronjob |-> job]

RunWorkloads ==
    {Replicated(k, RunNames[k], ns1, c[1], c[2], c[3]) :
        k \in Kinds \ {"cronjob"},
        c \in {<<0, TRUE, 0>>, <<1, TRUE, 0>>, <<1, TRUE, 1>>, <<1, FALSE, None>>}}
    \cup {CronJob(job, ns1, c[1], c[2], c[3]) :
        c \in {<<"True", TRUE, TRUE>>, <<"False", TRUE, TRUE>>,
               <<"False", TRUE, FALSE>>, <<NoneStr, FALSE, FALSE>>}}
    \cup {Replicated("deployment", api, ns1, 1, FALSE, None)}

\* The cluster holds one object per kind, namespace and name
DistinctObjects(w) ==
    \A i, j \in 1..Len(w) :
        i # j => <<w[i].kind, w[i].namespace, w[i].name>>
                     # <<w[j].kind, w[j].namespace, w[j].name>>

RunWatchLists ==
    {<<WatchEntry(NoneStr, ns1, web)>>,
     <<WatchEntry("DaemonSet", ns1, db)>>}

Init ==
    /\ watch_json \in RunWatchLists
    /\ \E w \in SeqsUpTo(RunWorkloads, MaxObjs) :
          /\ DistinctObjects(w)
          /\ cluster = [workloads |-> w, jobs |-> <<>>, pods |-> <<>>]
    /\ pc = "deployment"
    /\ all_metrics = <<>>
    /\ evaluated = <<>>
    /\ events = <<>>
    /\ tally = NoTally
    /\ faults = {}
    /\ invoked = {}
    /\ fn_arg = NoFn
    /\ fn_ret = NoFn

Next ==
    \/ GetDeploymentMetrics
    \/ GetReplicasetMetrics
    \/ GetDaemonsetMetrics
    \/ GetStatefulsetMetrics
    \/ GetCronjobMetrics
    \/ EvaluateAndNotify

Spec == Init /\ [][Next]_vars

\* --- remove_replicaset_hash on every name up to MaxNameLen
InitNormalize ==
    /\ fn_arg \in SeqsUpTo(NameChars, MaxNameLen)
    /\ fn_ret = <<>>
    /\ pc = "normalize"
    /\ watch_json = <<>>
    /\ cluster = NoCluster
    /\ all_metrics = <<>>
    /\ evaluated = <<>>
    /\ events = <<>>
    /\ tally = NoTally
    /\ faults = {}
    /\ invoked = {}

SpecNormalize == InitNormalize /\ [][Normalize]_vars

\* --- _is_watched on every watch list up to MaxWatch
WatchEntries ==
    {WatchEntry(k, n, m) :
        k \in {NoneStr, "", "deployment", "DaemonSet", "daemonset", "DAEMONSET"},
        n \in {ns1, ns2}, m \in {web, agent}}

WatchQueries ==
    {WatchEntry(k, n, m) :
        k \in {"deployment", "daemonset", "DaemonSet", "daemonSet", "cronjob"},
        n \in {ns1, ns2}, m \in {web, agent}}

InitWatched ==
    /\ watch_json \in SeqsUpTo(WatchEntries, MaxWatch)
    /\ fn_arg \in WatchQueries
    /\ fn_ret = <<>>
    /\ pc = "is_watched"
    /\ cluster = NoCluster
    /\ all_metrics = <<>>
    /\ evaluated = <<>>
    /\ events = <<>>
    /\ tally = NoTally
    /\ faults = {}
    /\ invoked = {}

SpecWatched == InitWatched /\ [][IsWatched]_vars

\* --- evaluate_and_notify on every list of metrics up to MaxMetrics
EvalMetrics ==
    {Metric(id[1], id[2], id[3], d, a, a, None, None) :
        id \in {<<web, ns1, "deployment">>, <<webHash, ns2, "replicaset">>,
                <<webV2Hash, ns1, "replicaset">>},
        d \in {None, 0, 1}, a \in {None, 0, 2}}

InitEval ==
    /\ all_metrics \in SeqsUpTo(EvalMetrics, MaxMetrics)
    /\ pc = "evaluate"
    /\ watch_json = <<>>
    /\ cluster = NoCluster
    /\ evaluated = <<>>
    /\ events = <<>>
    /\ tally = NoTally
    /\ faults = {}
    /\ invoked = Kinds
    /\ fn_arg = NoFn
    /\ fn_ret = NoFn

SpecEval == InitEval /\ [][EvaluateAndNotify]_vars

\* --- the ReplicaSet collector on every cluster of up to MaxObjs ReplicaSets
RsWatchEntries ==
    {WatchEntry("ReplicaSet", ns1, webHash), WatchEntry("replicaset", ns2, apiHash),
     WatchEntry(NoneStr, ns1, web), WatchEntry("DaemonSet", ns2, agent)}

ReplicaSets ==
    {Replicated("replicaset", m, n, r, TRUE, a) :
        m \in {webHash, apiHash}, n \in {ns1, ns2}, r \in {0, 2}, a \in {2}}
    \cup {Replicated("replicaset", webHash, ns1, None, TRUE, 2)}
    \cup {Replicated("replicaset", webHash, ns1, 2, TRUE, 0)}
    \cup {Replicated("replicaset", apiHash, ns1, 2, FALSE, None)}

InitRS ==
    /\ watch_json \in SeqsUpTo(RsWatchEntries, MaxWatch)
    /\ \E w \in SeqsUpTo(ReplicaSets, MaxObjs) :
          /\ DistinctObjects(w)
          /\ cluster = [workloads |-> w, jobs |-> <<>>, pods |-> <<>>]
    /\ pc = "replicaset"
    /\ all_metrics = <<>>
    /\ evaluated = <<>>
    /\ events = <<>>
    /\ tally = NoTally
    /\ faults = {}
    /\ invoked = {"deployment"}
    /\ fn_arg = NoFn
    /\ fn_ret = NoFn

SpecRS == InitRS /\ [][GetReplicasetMetrics]_vars

\* --- the CronJob collector: the CronJob job of ns1 in any condition, after it
\* the CronJob bak of ns1 or the CronJob job of ns2, and up to MaxObjs Jobs and
\* Pods
CronWatchList ==
    <<WatchEntry("CronJob", ns1, job), WatchEntry("cronjob", ns1, bak),
      WatchEntry("CronJob", ns2, job)>>

SecondCronJobs ==
    {CronJob(bak, ns1, "False", TRUE, TRUE), CronJob(job, ns2, "False", TRUE, TRUE)}

CronJobs ==
    {CronJob(job, ns1, c[1], c[2], c[3]) :
        c \in {<<"False", TRUE, TRUE>>, <<NoneStr, TRUE, TRUE>>, <<"True", TRUE, TRUE>>,
               <<"False", TRUE, FALSE>>, <<"False", FALSE, FALSE>>}}

OwnerRefs ==
    {<<>>, <<[kind |-> "CronJob", name |-> job]>>, <<[kind |-> "CronJob", name |-> bak]>>,
     <<[kind |-> "Job", name |-> job]>>}

\* Jobs and Pods as drawn, before the Jobs get their names
JobObjs ==
    {[obj |-> "job", namespace |-> ns1, owners |-> o, failed |-> f] :
        o \in OwnerRefs, f \in {None, 1}}
    \cup {[obj |-> "job", namespace |-> ns2, owners |-> <<[kind |-> "CronJob", name |-> job]>>,
           failed |-> 1]}

PodObjs ==
    {[obj |-> "pod", namespace |-> ns1, job_name |-> j, has_status |-> c[1], phase |-> c[2]] :
        j \in {JobName(1), <<>>},
        c \in {<<TRUE, "Failed">>, <<TRUE, "unknown">>, <<TRUE, "Running">>,
               <<FALSE, NoneStr>>}}

NamedJobs(objs) ==
    LET js == SelectSeq(objs, LAMBDA o : o.obj = "job")
    IN  [i \in 1..Len(js) |->
            [name |-> JobName(i), namespace |-> js[i].namespace,
             owners |-> js[i].owners, failed |-> js[i].failed]]

PodsOf(objs) ==
    LET ps == SelectSeq(objs, LAMBDA o : o.obj = "pod")
    IN  [i \in 1..Len(ps) |->
            [namespace |-> ps[i].namespace, job_name |-> ps[i].job_name,
             has_status |-> ps[i].has_status, phase |-> ps[i].phase]]

InitCron ==
    /\ watch_json = CronWatchList
    /\ \E cj \in CronJobs, second \in SecondCronJobs,
          objs \in SeqsUpTo(JobObjs \cup PodObjs, MaxObjs) :
          cluster = [workloads |-> <<cj, second>>,
                     jobs |-> NamedJobs(objs), pods |-> PodsOf(objs)]
    /\ pc = "cronjob"
    /\ all_metrics = <<>>
    /\ evaluated = <<>>
    /\ events = <<>>
    /\ tally = NoTally
    /\ faults = {}
    /\ invoked = Kinds \ {"cronjob"}
    /\ fn_arg = NoFn
    /\ fn_ret = NoFn

NextCron == GetCronjobMetrics \/ EvaluateAndNotify

SpecCron == InitCron /\ [][NextCron]_vars

\* =================================================================== claims
\* The posts made for the metric at position i of the list evaluated
EventsFor(i) == {k \in 1..Len(events) : events[k].i = i}

\* The metrics that call for an event: a desired count above 0
Wanted == {i \in 1..Len(evaluated) : evaluated[i].desired_replicas > 0}

\* The name with its last "-<letters and digits>" segment taken off, said
\* without the pattern: the longest proper prefix p such that name is p, a
\* hyphen, and one or more letters or digits
Normalized(name) ==
    LET cuts == {n \in 0..(Len(name) - 2) :
                    /\ name[n + 1] = "-"
                    /\ \A j \in (n + 2)..Len(name) : name[j] \in AlnumChars}
    IN  IF cuts = {} THEN name ELSE SubSeq(name, 1, Min(cuts))

\* C1: a metric whose desired_replicas is 0 or absent has no outbound event of
\* either kind, whatever its available_replicas, type and name.
C1_SilentWhenDesiredZero ==
    pc = "done" =>
        \A i \in 1..Len(evaluated) :
            evaluated[i].desired_replicas \in {None, 0} => EventsFor(i) = {}

\* C1 happens: a list with an unavailable metric of desired 0, one of absent
\* desired, evaluated without any event.
C1_Witness ==
    /\ pc = "done"
    /\ Len(evaluated) = 2
    /\ evaluated[1].desired_replicas = 0 /\ evaluated[1].available_replicas = 0
    /\ evaluated[2].desired_replicas = None /\ evaluated[2].available_replicas = 2
    /\ events = <<>>

\* C2: a metric with desired_replicas > 0 has exactly one event, a trigger when
\* available_replicas is 0 and a resolve when it is above 0, keyed
\* "k8s-zero-replicas-" + namespace + "/" + normalized name; so the events of
\* one resource all carry one key, trigger or resolve.
C2_OneEventKeyedByResource ==
    pc = "done" =>
        /\ \A i \in Wanted :
              /\ Cardinality(EventsFor(i)) = 1
              /\ \A k \in EventsFor(i) :
                    /\ evaluated[i].available_replicas = 0
                          => events[k].event_action = "trigger"
                    /\ evaluated[i].available_replicas > 0
                          => events[k].event_action = "resolve"
                    /\ events[k].dedup_key =
                          DedupPrefix \o evaluated[i].namespace \o <<"/">>
                              \o Normalized(evaluated[i].name)
        /\ \A k, l \in 1..Len(events) :
              (/\ evaluated[events[k].i].namespace = evaluated[events[l].i].namespace
               /\ evaluated[events[k].i].name = evaluated[events[l].i].name)
                  => events[k].dedup_key = events[l].dedup_key

\* C2 happens: one run with a trigger and a resolve for the same hash-suffixed
\* resource, under one key.
C2_Witness ==
    /\ pc = "done"
    /\ Len(events) = 2
    /\ events[1].event_action = "trigger"
    /\ events[2].event_action = "resolve"
    /\ evaluated[1].name = webHash /\ evaluated[2].name = webHash
    /\ events[1].dedup_key = events[2].dedup_key
    /\ events[1].dedup_key = DedupPrefix \o ns2 \o <<"/">> \o web

\* C9: whatever sends fail, every metric with desired > 0 gets its one outbound
\* call and no second one, and the trigger and resolve tallies count exactly
\* the sends that succeeded.
C9_FailedSendIsSkippedNotRetried ==
    pc = "done" =>
        /\ \A i \in 1..Len(evaluated) :
              Cardinality(EventsFor(i)) =
                  IF evaluated[i].desired_replicas \in {None, 0} THEN 0 ELSE 1
        /\ \A k, l \in 1..Len(events) : k < l => events[k].i < events[l].i
        /\ tally.triggers = Cardinality({k \in 1..Len(events) :
              events[k].event_action = "trigger" /\ events[k].sent})
        /\ tally.resolves = Cardinality({k \in 1..Len(events) :
              events[k].event_action = "resolve" /\ events[k].sent})

\* C9 happens: the first send fails, the second, for a sibling, is made and
\* succeeds, and only it is counted.
C9_Witness ==
    /\ pc = "done"
    /\ Len(events) = 2
    /\ ~events[1].sent /\ events[1].event_action = "trigger"
    /\ events[2].sent /\ events[2].event_action = "trigger"
    /\ tally = [triggers |-> 1, resolves |-> 0]

\* C3: name normalization is idempotent: normalizing a normalized name gives
\* it back.
C3_NormalizeIdempotent ==
    Len(fn_ret) >= 2 => fn_ret[2] = fn_ret[1]

\* The kind a watch entry counts under: "deployment" without a kind
KindOfEntry(e) == IF e.kind \in {NoneStr, ""} THEN "deployment" ELSE Lower(e.kind)

\* C5: when some watch entry has the kind asked for (compared without case, an
\* entry without a kind being a deployment), (ns, name) is watched exactly when
\* it is one of that kind's entries; otherwise exactly when ns is the namespace
\* of some entry of any kind.
C5_ExactForConfiguredKindElseNamespace ==
    pc = "returned" =>
        LET ofKind == {i \in 1..Len(watch_json) :
                          KindOfEntry(watch_json[i]) = Lower(fn_arg.kind)}
        IN  IF ofKind # {}
            THEN fn_ret[1] <=> \E i \in ofKind :
                                   /\ watch_json[i].namespace = fn_arg.namespace
                                   /\ watch_json[i].name = fn_arg.name
            ELSE fn_ret[1] <=> \E i \in 1..Len(watch_json) :
                                   watch_json[i].namespace = fn_arg.namespace

\* C5 happens: with one daemonset entry, another daemonset of its namespace is
\* asked for, under the spelling "DaemonSet", and is not watched.
C5_Witness ==
    /\ pc = "returned"
    /\ watch_json = <<WatchEntry("daemonset", ns1, web)>>
    /\ fn_arg = WatchEntry("DaemonSet", ns1, agent)
    /\ fn_ret = <<FALSE>>

\* The ReplicaSets the collector's loop gets through: those before the first
\* one that passes the filter and has no status
RsSeen ==
    LET items == SelectSeq(cluster.workloads, LAMBDA o : o.kind = "replicaset")
        InScope(o) == \/ is_watched(watch_json, "replicaset", o.namespace, o.name)
                      \/ \E j \in 1..Len(watch_json) : watch_json[j].namespace = o.namespace
        bad == {i \in 1..Len(items) : InScope(items[i]) /\ ~items[i].has_status}
    IN  IF bad = {} THEN items ELSE SubSeq(items, 1, Min(bad) - 1)

\* C10 as first stated: after the collector has run, it has emitted a metric
\* for a ReplicaSet of the cluster exactly when (it is watched as a replicaset
\* or its namespace is the namespace of some watch entry) and its desired count
\* is not 0; so every ReplicaSet with desired > 0 in a namespace of the watch
\* list is emitted, and none with desired 0.
C10_ReplicaSetFilterAll ==
    pc = "daemonset" =>
        LET items == SelectSeq(cluster.workloads, LAMBDA o : o.kind = "replicaset")
            Emitted(o) ==
                /\ \/ is_watched(watch_json, "replicaset", o.namespace, o.name)
                   \/ \E j \in 1..Len(watch_json) : watch_json[j].namespace = o.namespace
                /\ o.replicas \notin {None, 0}
            want == SelectSeq(items, Emitted)
        IN  /\ Len(all_metrics) = Len(want)
            /\ \A k \in 1..Len(want) :
                  /\ all_metrics[k].name = want[k].name
                  /\ all_metrics[k].namespace = want[k].namespace
                  /\ all_metrics[k].type = "replicaset"
            /\ \A i \in 1..Len(items) :
                  (/\ items[i].replicas > 0
                   /\ \E j \in 1..Len(watch_json) :
                         watch_json[j].namespace = items[i].namespace)
                      => \E k \in 1..Len(all_metrics) :
                            /\ all_metrics[k].name = items[i].name
                            /\ all_metrics[k].namespace = items[i].namespace
            /\ \A k \in 1..Len(all_metrics) : all_metrics[k].desired_replicas > 0

\* C10, amended: when the list query fails the collector emits nothing; when
\* it succeeds, then for the ReplicaSets its loop gets through (those before
\* the first one that passes the watch filter and has no status) it emits a
\* metric exactly when (the ReplicaSet is watched as a replicaset or its
\* namespace is the namespace of some watch entry) and its desired count is
\* not 0; so such a ReplicaSet with desired > 0 in a namespace of the watch
\* list is emitted, in an explicit replicaset entry or not, and none is
\* emitted with desired 0.
C10_ReplicaSetFilter ==
    /\ (pc = "daemonset" /\ faults # {}) => all_metrics = <<>>
    /\ (pc = "daemonset" /\ faults = {}) =>
           LET Emitted(o) ==
                   /\ \/ is_watched(watch_json, "replicaset", o.namespace, o.name)
                      \/ \E j \in 1..Len(watch_json) : watch_json[j].namespace = o.namespace
                   /\ o.replicas \notin {None, 0}
               want == SelectSeq(RsSeen, Emitted)
           IN  /\ Len(all_metrics) = Len(want)
               /\ \A k \in 1..Len(want) :
                     /\ all_metrics[k].name = want[k].name
                     /\ all_metrics[k].namespace = want[k].namespace
                     /\ all_metrics[k].type = "replicaset"
                     /\ all_metrics[k].desired_replicas = want[k].replicas
               /\ \A i \in 1..Len(RsSeen) :
                     (/\ RsSeen[i].replicas > 0
                      /\ \E j \in 1..Len(watch_json) :
                            watch_json[j].namespace = RsSeen[i].namespace)
                         => \E k \in 1..Len(all_metrics) :
                               /\ all_metrics[k].name = RsSeen[i].name
                               /\ all_metrics[k].namespace = RsSeen[i].namespace
               /\ \A k \in 1..Len(all_metrics) : all_metrics[k].desired_replicas > 0

\* C10 happens: the watch list names the replicaset web-7f9 of ns1, and the
\* ReplicaSet api-5c of ns1, which it does not name, is emitted, while one
\* scaled to zero is not.
C10_Witness ==
    /\ pc = "daemonset"
    /\ faults = {}
    /\ watch_json = <<WatchEntry("ReplicaSet", ns1, webHash)>>
    /\ Len(cluster.workloads) = 2
    /\ cluster.workloads[1].name = apiHash /\ cluster.workloads[1].namespace = ns1
    /\ cluster.workloads[1].replicas = 2
    /\ cluster.workloads[2].name = webHash /\ cluster.workloads[2].namespace = ns1
    /\ cluster.workloads[2].replicas = 0
    /\ Len(all_metrics) = 1
    /\ all_metrics[1].name = apiHash

\* The metrics as the collectors left them
CollectedMetrics == IF pc = "done" THEN evaluated ELSE all_metrics

\* Whether the cluster-wide list of a kind failed in this run
ListFailed(kind) ==
    \E f \in faults :
        f.call = [deployment |-> "list_deployment", replicaset |-> "list_replica_set",
                  daemonset |-> "list_daemon_set", statefulset |-> "list_stateful_set",
                  cronjob |-> "list_cron_job"][kind]

JobsListFailed(cj) == Fault("list_namespaced_job", CallOf(cj)) \in faults

PodsListFailed(cj) == Fault("list_namespaced_pod", CallOf(cj)) \in faults

\* The Jobs the listing made for cj returned: none when it failed
JobsSeen(cj) ==
    IF JobsListFailed(cj) THEN <<>>
    ELSE SelectSeq(cluster.jobs, LAMBDA j : j.namespace = cj.namespace)

\* Of those, the names of the Jobs cj owns
OwnedNames(cj) ==
    {JobsSeen(cj)[i].name : i \in {j \in 1..Len(JobsSeen(cj)) :
        \E r \in 1..Len(JobsSeen(cj)[j].owners) :
            /\ JobsSeen(cj)[j].owners[r].kind = "CronJob"
            /\ JobsSeen(cj)[j].owners[r].name = cj.name}}

\* The Pods of cj's namespace the collector looked at: none when their listing
\* failed, and those before the first Pod of an owned Job that has no status
PodsSeen(cj) ==
    LET pods == SelectSeq(cluster.pods, LAMBDA p : p.namespace = cj.namespace)
        bad == {i \in 1..Len(pods) :
                   pods[i].job_name \in OwnedNames(cj) /\ ~pods[i].has_status}
    IN  IF PodsListFailed(cj) THEN <<>>
        ELSE IF bad = {} THEN pods ELSE SubSeq(pods, 1, Min(bad) - 1)

\* Whether the listing of cj's Pods ended in an error
PodsErrored(cj) ==
    \/ PodsListFailed(cj)
    \/ \E i \in 1..Len(cluster.pods) :
          /\ cluster.pods[i].namespace = cj.namespace
          /\ cluster.pods[i].job_name \in OwnedNames(cj)
          /\ ~cluster.pods[i].has_status

FailedOwnedJobs(cj) ==
    {i \in 1..Len(JobsSeen(cj)) :
        /\ JobsSeen(cj)[i].name \in OwnedNames(cj)
        /\ JobsSeen(cj)[i].failed > 0}

FailedOwnedPods(cj) ==
    {i \in 1..Len(PodsSeen(cj)) :
        /\ PodsSeen(cj)[i].job_name \in OwnedNames(cj)
        /\ PodsSeen(cj)[i].phase \in {"failed", "Failed", "unknown", "Unknown"}}

\* C4 as amended: a scheduled job's metric has available_replicas = 1 if and
\* only if it is not suspended, it has a last-success timestamp, none of the
\* executions it owns (owner reference of kind "CronJob" with its name, in its
\* namespace) that its listing returned reports a failure count > 0, and none
\* of the pods the collector looked at that is labelled with such an
\* execution's name is in phase failed or unknown; otherwise it is 0.  A
\* listing that fails returns nothing, and the pods after one that cannot be
\* read are not looked at.
C4_HealthyIffAllFourSeen ==
    (pc = "evaluate" /\ ~ListFailed("cronjob")) =>
        /\ Len(all_metrics) = Len(cluster.workloads)
        /\ \A i \in 1..Len(cluster.workloads) :
              LET cj == cluster.workloads[i]
                  allFour == /\ cj.suspend # "True"
                             /\ cj.has_status /\ cj.last_success
                             /\ FailedOwnedJobs(cj) = {}
                             /\ FailedOwnedPods(cj) = {}
              IN  /\ all_metrics[i].name = cj.name
                  /\ all_metrics[i].available_replicas = IF allFour THEN 1 ELSE 0

\* The executions of the cluster that cj owns
OwnedInCluster(cj) ==
    {i \in 1..Len(cluster.jobs) :
        /\ cluster.jobs[i].namespace = cj.namespace
        /\ \E r \in 1..Len(cluster.jobs[i].owners) :
              /\ cluster.jobs[i].owners[r].kind = "CronJob"
              /\ cluster.jobs[i].owners[r].name = cj.name}

\* C4 as stated: a scheduled job's metric has available_replicas = 1 if and
\* only if it is not suspended, has a last-success timestamp, owns no execution
\* with a failure count > 0, and no pod labelled with an owned execution's name
\* is in phase failed or unknown.
C4_HealthyIffAllFour ==
    (pc = "evaluate" /\ ~ListFailed("cronjob")) =>
        \A i \in 1..Len(cluster.workloads) :
            LET cj == cluster.workloads[i]
                allFour ==
                    /\ cj.suspend # "True"
                    /\ cj.has_status /\ cj.last_success
                    /\ \A j \in OwnedInCluster(cj) : ~(cluster.jobs[j].failed > 0)
                    /\ \A p \in 1..Len(cluster.pods) :
                          (/\ cluster.pods[p].namespace = cj.namespace
                           /\ \E j \in OwnedInCluster(cj) :
                                 cluster.pods[p].job_name = cluster.jobs[j].name)
                              => cluster.pods[p].phase
                                    \notin {"failed", "Failed", "unknown", "Unknown"}
            IN  all_metrics[i].available_replicas = 1 <=> allFour

\* C4 happens: a schedule that owns an execution with a running pod, no call
\* failing, is healthy.
C4_Witness ==
    /\ pc = "evaluate"
    /\ faults = {}
    /\ Len(cluster.jobs) = 1 /\ Len(cluster.pods) = 1
    /\ cluster.jobs[1].owners = <<[kind |-> "CronJob", name |-> job]>>
    /\ cluster.jobs[1].failed = None
    /\ cluster.pods[1].job_name = cluster.jobs[1].name
    /\ cluster.pods[1].phase = "Running"
    /\ all_metrics[1].name = job
    /\ all_metrics[1].available_replicas = 1

\* C8: an error while listing a schedule's executions or pods does not stop
\* the collection: the schedule's metric and those of the remaining schedules
\* are emitted, the failed listing adds no failure to those counted before it,
\* and a schedule that is not suspended, has a last-success timestamp and had
\* no failure counted before the error has available_replicas = 1, so that the
\* event sent for it is a resolve, not a trigger.
C8_ListingErrorAddsNoFailure ==
    (pc \in {"evaluate", "done"} /\ ~ListFailed("cronjob")) =>
        /\ Len(CollectedMetrics) = Len(cluster.workloads)
        /\ \A i \in 1..Len(cluster.workloads) :
              LET cj == cluster.workloads[i]
                  m == CollectedMetrics[i]
              IN  (JobsListFailed(cj) \/ PodsErrored(cj)) =>
                    /\ m.name = cj.name
                    /\ JobsListFailed(cj) => (m.failed_jobs = 0 /\ m.failed_pods = 0)
                    /\ m.failed_pods = Cardinality(FailedOwnedPods(cj))
                    /\ PodsListFailed(cj) => m.failed_pods = 0
                    /\ (/\ cj.suspend # "True"
                        /\ cj.has_status /\ cj.last_success
                        /\ m.failed_jobs = 0 /\ m.failed_pods = 0)
                          => /\ m.available_replicas = 1
                             /\ pc = "done" =>
                                   \A k \in EventsFor(i) : events[k].event_action = "resolve"

\* C8 happens: the schedule job owns a failed execution, the listing of its
\* executions fails, and it is reported available and resolved, with the
\* schedule after it collected too.
C8_Witness ==
    /\ pc = "done"
    /\ faults = {Fault("list_namespaced_job", ns1 \o <<"/">> \o job)}
    /\ Len(cluster.jobs) = 1
    /\ cluster.jobs[1].owners = <<[kind |-> "CronJob", name |-> job]>>
    /\ cluster.jobs[1].failed = 1 /\ cluster.jobs[1].namespace = ns1
    /\ Len(evaluated) = 2
    /\ evaluated[1].name = job /\ evaluated[1].available_replicas = 1
    /\ evaluated[2].name = bak
    /\ Len(events) = 2 /\ events[1].event_action = "resolve"

\* The objects of a kind the collector was given: none when its list failed
ItemsGiven(kind) ==
    IF ListFailed(kind) THEN <<>>
    ELSE SelectSeq(cluster.workloads, LAMBDA o : o.kind = kind)

\* What the five collectors return, in run()'s order, when no call fails and
\* the kinds whose list failed in this run have no object at all
AsIfFoundNothing ==
    get_deployment_metrics(watch_json, ItemsGiven("deployment"), FALSE)
    \o get_replicaset_metrics(watch_json, ItemsGiven("replicaset"), FALSE)
    \o get_daemonset_metrics(watch_json, ItemsGiven("daemonset"), FALSE)
    \o get_statefulset_metrics(watch_json, ItemsGiven("statefulset"), FALSE)
    \o get_cronjob_metrics(watch_json, ItemsGiven("cronjob"), FALSE, {}, {})

\* The posts of a run, without their outcome
Posts(evs) == [k \in 1..Len(evs) |-> <<evs[k].event_action, evs[k].dedup_key>>]

\* C6: a collector whose cluster query fails never aborts the run: all five
\* collectors are invoked, and the metrics passed to evaluate_and_notify, and
\* the events made for them, are those of a run in which the failing
\* collector's kind has no object.
C6_FailedCollectorDoesNotAbortRun ==
    /\ pc # "fatal"
    /\ (\E k \in Kinds : ListFailed(k)) =>
          /\ pc \in {"evaluate", "done"} => invoked = Kinds
          /\ pc = "evaluate" => all_metrics = AsIfFoundNothing
          /\ pc = "done" =>
                /\ evaluated = AsIfFoundNothing
                /\ Posts(events) =
                      Posts(evaluate_and_notify(AsIfFoundNothing,
                          [i \in 1..Len(AsIfFoundNothing) |-> TRUE]).events)

\* C6 happens: the DaemonSet list fails in a cluster with an unready DaemonSet
\* and an unavailable Deployment, and the run ends with the one trigger of the
\* Deployment.
C6_Witness ==
    /\ pc = "done"
    /\ ListFailed("daemonset")
    /\ watch_json = <<WatchEntry(NoneStr, ns1, web)>>
    /\ \E i \in 1..Len(cluster.workloads) :
          /\ cluster.workloads[i].kind = "daemonset"
          /\ cluster.workloads[i].replicas = 1
          /\ cluster.workloads[i].has_status
          /\ cluster.workloads[i].ready = 0
    /\ Len(events) = 1
    /\ events[1].event_action = "trigger"
    /\ events[1].dedup_key = DedupPrefix \o ns1 \o <<"/">> \o web

\* Whether an error occurred inside the collector of a kind: its list query
\* failed, or an object it processes has no status to read
Errored(kind) ==
    \/ ListFailed(kind)
    \/ /\ kind \in {"deployment", "replicaset", "daemonset", "statefulset"}
       /\ \E i \in 1..Len(cluster.workloads) :
             /\ cluster.workloads[i].kind = kind
             /\ ~cluster.workloads[i].has_status
             /\ \/ is_watched(watch_json, kind, cluster.workloads[i].namespace,
                              cluster.workloads[i].name)
                \/ /\ kind = "replicaset"
                   /\ cluster.workloads[i].namespace \in watched_namespaces(watch_json)

\* C7: a collector in which an error occurs, at the list query or while
\* processing an item, returns no metric at all.
C7_ErrorYieldsEmptyList ==
    \A kind \in invoked :
        Errored(kind) =>
            \A i \in 1..Len(CollectedMetrics) : CollectedMetrics[i].type # kind

\* C11: within one run no dedup key receives both a trigger and a resolve: two
\* evaluated metrics with desired_replicas > 0 whose namespace and normalized
\* name are the same never have one a trigger event and the other a resolve.
C11_NoKeyBothTriggerAndResolve ==
    pc = "done" =>
        \A i, j \in Wanted :
            (/\ evaluated[i].namespace = evaluated[j].namespace
             /\ Normalized(evaluated[i].name) = Normalized(evaluated[j].name))
            => \A a \in EventsFor(i), b \in EventsFor(j) :
                   events[a].event_action = events[b].event_action

====
